---- MODULE Spec2Model ----
(***************************************************************************)
(* Procedural polygon evolution engine of Shape Studio                     *)
(* (src/src/core/procedural.py, src/src/core/param_converters.py,          *)
(* src/src/core/shape.py).                                                 *)
(*                                                                         *)
(* Points are pairs <<x, y>>.  Intermediate float values are exact         *)
(* rationals <<num, den>> with den > 0.  A call of random.random() is a    *)
(* draw from RandomValues; random.uniform(a, b) is a + (b - a) * r as the  *)
(* library computes it.  Lengths along and across an edge are carried as   *)
(* fractions of seg_length: the unit perpendicular times an offset is the  *)
(* unnormalised perpendicular times offset / seg_length.                   *)
(***************************************************************************)
EXTENDS Integers, Sequences, FiniteSets, TLC

\* ------------------------------------------------------------------ bounds
\* random.random() is drawn from {0/RandomSteps, ..., RandomSteps/RandomSteps}
RandomSteps == 1

\* --------------------------------------------------------------- rationals
Abs(a) == IF a < 0 THEN -a ELSE a

RECURSIVE Gcd(_, _)
Gcd(a, b) == IF b = 0 THEN a ELSE Gcd(b, a % b)

Rat(n, d) ==
    LET g == Gcd(Abs(n), d)
    IN  <<n \div g, d \div g>>

RInt(n) == <<n, 1>>
RAdd(a, b) == Rat(a[1] * b[2] + b[1] * a[2], a[2] * b[2])
RSub(a, b) == Rat(a[1] * b[2] - b[1] * a[2], a[2] * b[2])
RMul(a, b) == Rat(a[1] * b[1], a[2] * b[2])
RLt(a, b) == a[1] * b[2] < b[1] * a[2]
RLe(a, b) == a[1] * b[2] <= b[1] * a[2]
RMin(a, b) == IF RLe(a, b) THEN a ELSE b
RMax(a, b) == IF RLe(a, b) THEN b ELSE a

\* Python round(): to the nearest integer, ties to the even one
Round(q) ==
    LET f == q[1] \div q[2]
        r == q[1] % q[2]
    IN  IF 2 * r < q[2] THEN f
        ELSE IF 2 * r > q[2] THEN f + 1
        ELSE IF f % 2 = 0 THEN f ELSE f + 1

\* The values a call of random.random() is drawn from
RandomValues == { Rat(k, RandomSteps) : k \in 0..RandomSteps }

\* random.uniform(a, b) = a + (b - a) * random()
Uniform(a, b, r) == RAdd(a, RMul(RSub(b, a), r))

\* Float constants of the operation library
OneTenth == Rat(1, 10)
OneTwentieth == Rat(1, 20)
ThreeTenths == Rat(3, 10)
ROne == RInt(1)
RZero == RInt(0)
RTwo == RInt(2)

\* ---------------------------------------------------- geometry primitives
RoundPoint(p) == <<Round(p[1]), Round(p[2])>>

\* variant: only the lower edges of the rectangle are tested
IsWithinBoundsLowerOnly(point, bounds) ==
    /\ bounds[1] <= point[1]
    /\ bounds[2] <= point[2]

IsWithinBounds(point, bounds) ==
    /\ bounds[1] <= point[1] /\ point[1] <= bounds[3]
    /\ bounds[2] <= point[2] /\ point[2] <= bounds[4]

\* the centroid (sum x / n, sum y / n), kept as a pair of rationals
RECURSIVE SumCoord(_, _)
SumCoord(points, c) ==
    IF points = <<>> THEN 0 ELSE points[1][c] + SumCoord(Tail(points), c)

ComputeCentroid(points) ==
    <<Rat(SumCoord(points, 1), Len(points)), Rat(SumCoord(points, 2), Len(points))>>

Ccw(A, B, C) == (C[2] - A[2]) * (B[1] - A[1]) > (B[2] - A[2]) * (C[1] - A[1])

SegmentsIntersect(p1, p2, p3, p4) ==
    /\ Ccw(p1, p3, p4) # Ccw(p2, p3, p4)
    /\ Ccw(p1, p2, p3) # Ccw(p1, p2, p4)

\* points[(i + 1) % n], 1-based
NextIdx(i, n) == (i % n) + 1

\* variant: the closing edge is left out of the comparison
IsValidPolygonNoClosing(points) ==
    LET n == Len(points)
    IN  /\ n >= 3
        /\ \A i \in 1..n : \A j \in (i + 2)..(n - 1) :
              ~SegmentsIntersect(points[i], points[NextIdx(i, n)],
                                 points[j], points[NextIdx(j, n)])

IsValidPolygon(points) ==
    LET n == Len(points)
    IN  /\ n >= 3
        /\ \A i \in 1..n : \A j \in (i + 2)..n :
              \/ (i = 1 /\ j = n)
              \/ ~SegmentsIntersect(points[i], points[NextIdx(i, n)],
                                    points[j], points[NextIdx(j, n)])

\* squared length of the edge starting at points[i]
SqLen(points, i) ==
    LET p1 == points[i]
        p2 == points[NextIdx(i, Len(points))]
    IN  (p2[1] - p1[1]) * (p2[1] - p1[1]) + (p2[2] - p1[2]) * (p2[2] - p1[2])

\* ---------------------------------------------------- initial construction
\* one coordinate pair per vertex: x = uniform(x1, x2), y = uniform(y1, y2)
RawPoints(bounds) ==
    { <<Uniform(RInt(bounds[1]), RInt(bounds[3]), rx),
        Uniform(RInt(bounds[2]), RInt(bounds[4]), ry)>> : rx, ry \in RandomValues }

\* order of math.atan2(y, x) in (-pi, pi]: lower half plane, angle 0 (the
\* positive x axis and the origin), upper half plane, angle pi
AngleClass(v) ==
    IF v[2][1] < 0 THEN 0
    ELSE IF v[2][1] > 0 THEN 2
    ELSE IF v[1][1] >= 0 THEN 1 ELSE 3

RCross(a, b) == RSub(RMul(a[1], b[2]), RMul(a[2], b[1]))

AngleLt(a, b) ==
    \/ AngleClass(a) < AngleClass(b)
    \/ /\ AngleClass(a) = AngleClass(b)
       /\ AngleClass(a) \in {0, 2}
       /\ RCross(a, b)[1] > 0

RECURSIVE RSum(_, _)
RSum(points, c) ==
    IF points = <<>> THEN RZero ELSE RAdd(points[1][c], RSum(Tail(points), c))

ConnectUnsorted(points) == points

\* sorted(points, key = atan2(p.y - cy, p.x - cx)): a stable sort
ConnectAngleSort(points) ==
    LET n == Len(points)
        cx == RMul(RSum(points, 1), Rat(1, n))
        cy == RMul(RSum(points, 2), Rat(1, n))
        rel(i) == <<RSub(points[i][1], cx), RSub(points[i][2], cy)>>
        before(i, j) == \/ AngleLt(rel(i), rel(j))
                        \/ (~AngleLt(rel(j), rel(i)) /\ i < j)
        rank(i) == Cardinality({ j \in 1..n : before(j, i) }) + 1
    IN  [k \in 1..n |-> points[CHOOSE i \in 1..n : rank(i) = k]]

\* convex_hull is an alias of angle_sort
ConnectConvexHull(points) == ConnectAngleSort(points)

ConnectVertices(points, method) ==
    IF method = "angle_sort" THEN ConnectAngleSort(points)
    ELSE ConnectConvexHull(points)

RoundAll(points) == [k \in 1..Len(points) |-> RoundPoint(points[k])]

\* -------------------------------------------------------- segment selection
\* The indices _select_segment can return (1-based).  length >= min is
\* compared on squares; an edge of zero length is returned only on r = 0, when
\* no eligible edge before it has a positive length.
\* variant: every edge is eligible whatever its length
SelectSegmentIgnoresMinimum(points, min_segment_length) ==
    LET n == Len(points)
    IN  IF \A i \in 1..n : SqLen(points, i) = 0
        THEN 1..n
        ELSE { i \in 1..n :
                 \/ SqLen(points, i) > 0
                 \/ \A j \in 1..i : SqLen(points, j) = 0 }

SelectSegmentNoFallback(points, min_segment_length) ==
    LET n == Len(points)
        eligible == { i \in 1..n :
                        SqLen(points, i) >= min_segment_length * min_segment_length }
    IN  { i \in eligible :
            \/ SqLen(points, i) > 0
            \/ \A j \in eligible : j <= i => SqLen(points, j) = 0 }

SelectSegment(points, min_segment_length) ==
    LET n == Len(points)
        long(i) == \/ min_segment_length <= 0
                   \/ SqLen(points, i) >= min_segment_length * min_segment_length
        meeting == { i \in 1..n : long(i) }
        eligible == IF meeting = {} THEN 1..n ELSE meeting
    IN  IF \A i \in eligible : SqLen(points, i) = 0
        THEN 1..n
        ELSE { i \in eligible :
                 \/ SqLen(points, i) > 0
                 \/ \A j \in eligible : j <= i => SqLen(points, j) = 0 }

\* ------------------------------------------------- perpendicular direction
\* The perpendicular of the edge p1-p2, unnormalised (its length is the edge's
\* seg_length), flipped per bias; coin is the random() of the 'random' bias.
GetPerpendicularDirection(p1, p2, bias, centroid, coin) ==
    LET perp == <<-(p2[2] - p1[2]), p2[1] - p1[1]>>
        mx == Rat(p1[1] + p2[1], 2)
        my == Rat(p1[2] + p2[2], 2)
        dot == RAdd(RMul(RInt(perp[1]), RSub(mx, centroid[1])),
                    RMul(RInt(perp[2]), RSub(my, centroid[2])))
        neg == <<-perp[1], -perp[2]>>
    IN  IF bias = "inward" THEN (IF dot[1] > 0 THEN neg ELSE perp)
        ELSE IF bias = "outward" THEN (IF dot[1] < 0 THEN neg ELSE perp)
        ELSE IF bias = "random" THEN (IF RLt(coin, Rat(1, 2)) THEN neg ELSE perp)
        ELSE perp

\* p1 + t * (p2 - p1) + u * perp, as a pair of rationals
Along(p1, p2, t, perp, u) ==
    <<RAdd(RAdd(RInt(p1[1]), RMul(t, RInt(p2[1] - p1[1]))), RMul(u, RInt(perp[1]))),
      RAdd(RAdd(RInt(p1[2]), RMul(t, RInt(p2[2] - p1[2]))), RMul(u, RInt(perp[2])))>>

Insert(points, idx, new) ==
    SubSeq(points, 1, idx) \o new \o SubSeq(points, idx + 1, Len(points))

Raised == [ok |-> FALSE, points |-> <<>>, distortable |-> <<>>]
Returned(points, distortable) == [ok |-> TRUE, points |-> points, distortable |-> distortable]

\* ------------------------------------------------------- operation library
\* rnd holds the random draws of one attempt:
\*   t      break (centre) position          w    break width
\*   u, u2  projection distances             coin the 'random' bias flip
\*   cl, cr the squarewave's opposite-direction draws
\*   k      random.choice index (distort)    f    the 10-30% move draw
\* variant: the new point is inserted before the selected vertex
OpSplitOffsetBefore(points, idx, break_margin, break_width_max, projection_max, direction_bias, centroid, bounds, rnd) ==
    LET n == Len(points)
        p1 == points[idx]
        p2 == points[NextIdx(idx, n)]
        t == Uniform(break_margin, RSub(ROne, break_margin), rnd.t)
        perp == GetPerpendicularDirection(p1, p2, direction_bias, centroid, rnd.coin)
        break_width == Uniform(RZero, break_width_max, rnd.w)
        offset_dist == Uniform(RZero, RMul(projection_max, RMax(break_width, OneTenth)), rnd.u)
        new_point == RoundPoint(Along(p1, p2, t, perp, offset_dist))
    IN  IF ~IsWithinBounds(new_point, bounds) THEN Raised
        ELSE Returned(Insert(points, idx - 1, <<new_point>>), <<>>)

OpSplitOffset(points, idx, break_margin, break_width_max, projection_max, direction_bias, centroid, bounds, rnd) ==
    LET n == Len(points)
        p1 == points[idx]
        p2 == points[NextIdx(idx, n)]
        t == Uniform(break_margin, RSub(ROne, break_margin), rnd.t)
        perp == GetPerpendicularDirection(p1, p2, direction_bias, centroid, rnd.coin)
        break_width == Uniform(RZero, break_width_max, rnd.w)
        offset_dist == Uniform(RZero, RMul(projection_max, RMax(break_width, OneTenth)), rnd.u)
        new_point == RoundPoint(Along(p1, p2, t, perp, offset_dist))
    IN  IF ~IsWithinBounds(new_point, bounds) THEN Raised
        ELSE Returned(Insert(points, idx, <<new_point>>), <<>>)

\* the break width available around t_center, as a fraction of seg_length
MaxWidth(break_width_max, t_center) ==
    RMin(break_width_max, RMul(RMin(t_center, RSub(ROne, t_center)), RTwo))

OpSawtooth(points, idx, break_margin, break_width_max, projection_max, direction_bias, centroid, bounds, rnd) ==
    LET n == Len(points)
        p1 == points[idx]
        p2 == points[NextIdx(idx, n)]
        t_center == Uniform(break_margin, RSub(ROne, break_margin), rnd.t)
        break_width == Uniform(RZero, MaxWidth(break_width_max, t_center), rnd.w)
        t_delta == RMul(break_width, Rat(1, 2))
        perp == GetPerpendicularDirection(p1, p2, direction_bias, centroid, rnd.coin)
        min_projection == OneTwentieth
        max_projection == RMul(projection_max, RMax(break_width, min_projection))
        offset_dist == Uniform(min_projection, max_projection, rnd.u)
        base_left == RoundPoint(Along(p1, p2, RSub(t_center, t_delta), perp, RZero))
        peak == RoundPoint(Along(p1, p2, t_center, perp, offset_dist))
        base_right == RoundPoint(Along(p1, p2, RAdd(t_center, t_delta), perp, RZero))
    IN  IF SqLen(points, idx) = 0 THEN Raised      \* half_width / seg_length
        ELSE IF \E q \in {base_left, peak, base_right} : ~IsWithinBounds(q, bounds)
        THEN Raised
        ELSE Returned(Insert(points, idx, <<base_left, peak, base_right>>), <<>>)

OpSquarewave(points, idx, break_margin, break_width_max, projection_max, direction_bias, centroid, bounds, independent_directions, opposite_prob, rnd) ==
    LET n == Len(points)
        p1 == points[idx]
        p2 == points[NextIdx(idx, n)]
        t_center == Uniform(break_margin, RSub(ROne, break_margin), rnd.t)
        break_width == Uniform(RZero, MaxWidth(break_width_max, t_center), rnd.w)
        t_delta == RMul(break_width, Rat(1, 2))
        t_left == RSub(t_center, t_delta)
        t_right == RAdd(t_center, t_delta)
        perp == GetPerpendicularDirection(p1, p2, direction_bias, centroid, rnd.coin)
        neg == <<-perp[1], -perp[2]>>
        left_perp == IF independent_directions /\ RLt(rnd.cl, opposite_prob)
                     THEN neg ELSE perp
        right_perp == IF independent_directions /\ RLt(rnd.cr, opposite_prob)
                      THEN neg ELSE perp
        min_projection == OneTwentieth
        max_projection == RMul(projection_max, RMax(break_width, min_projection))
        left_offset == Uniform(min_projection, max_projection, rnd.u)
        right_offset == Uniform(min_projection, max_projection, rnd.u2)
        base_left == RoundPoint(Along(p1, p2, t_left, perp, RZero))
        top_left == RoundPoint(Along(p1, p2, t_left, left_perp, left_offset))
        top_right == RoundPoint(Along(p1, p2, t_right, right_perp, right_offset))
        base_right == RoundPoint(Along(p1, p2, t_right, perp, RZero))
    IN  IF SqLen(points, idx) = 0 THEN Raised      \* half_width / seg_length
        ELSE IF \E q \in {base_left, top_left, top_right, base_right} :
                    ~IsWithinBounds(q, bounds)
        THEN Raised
        ELSE Returned(Insert(points, idx, <<base_left, top_left, top_right, base_right>>), <<>>)

\* list.index(x): the first position holding x
IndexOf(seq, x) == CHOOSE i \in 1..Len(seq) : seq[i] = x /\ \A j \in 1..(i - 1) : seq[j] # x

Contains(seq, x) == \E i \in 1..Len(seq) : seq[i] = x

RemoveAt(seq, i) == SubSeq(seq, 1, i - 1) \o SubSeq(seq, i + 1, Len(seq))

\* variant: the vertex after the selected one is deleted
OpRemovePointWrongIndex(points, idx, distortable_points) ==
    IF Len(points) <= 3 THEN Raised
    ELSE LET at == NextIdx(idx, Len(points))
         IN  Returned(RemoveAt(points, at),
                      IF Contains(distortable_points, points[at])
                      THEN RemoveAt(distortable_points, IndexOf(distortable_points, points[at]))
                      ELSE distortable_points)

\* variant: the removed vertex is left in the distortable list
OpRemovePointKeepsSet(points, idx, distortable_points) ==
    IF Len(points) <= 3 THEN Raised
    ELSE Returned(RemoveAt(points, idx), distortable_points)

OpRemovePoint(points, idx, distortable_points) ==
    IF Len(points) <= 3 THEN Raised
    ELSE LET removed_point == points[idx]
             new_points == RemoveAt(points, idx)
             new_distortable ==
                 IF Contains(distortable_points, removed_point)
                 THEN RemoveAt(distortable_points, IndexOf(distortable_points, removed_point))
                 ELSE distortable_points
         IN  Returned(new_points, new_distortable)

OpDistortOriginal(points, projection_max, direction_bias, centroid, bounds, distortable_points, rnd) ==
    IF Len(distortable_points) = 0 THEN Raised
    ELSE LET old_coord == distortable_points[rnd.k]
         IN  IF ~Contains(points, old_coord) THEN Raised
             ELSE
             LET point_idx == IndexOf(points, old_coord)
                 dx == RSub(RInt(old_coord[1]), centroid[1])
                 dy == RSub(RInt(old_coord[2]), centroid[2])
                 move_fraction == RMul(Uniform(OneTenth, ThreeTenths, rnd.f), projection_max)
                 sgn == IF direction_bias = "inward" THEN RInt(-1) ELSE ROne
                 new_coord ==
                     RoundPoint(<<RAdd(RInt(old_coord[1]), RMul(sgn, RMul(dx, move_fraction))),
                                  RAdd(RInt(old_coord[2]), RMul(sgn, RMul(dy, move_fraction)))>>)
                 distort_idx == IndexOf(distortable_points, old_coord)
             IN  IF dx[1] = 0 /\ dy[1] = 0 THEN Returned(points, distortable_points)
                 ELSE IF ~IsWithinBounds(new_coord, bounds) THEN Raised
                 ELSE Returned([points EXCEPT ![point_idx] = new_coord],
                               [distortable_points EXCEPT ![distort_idx] = new_coord])

\* (new_points, new_distortable_points), or a raise.  A name outside the five
\* falls through every branch: the None returned cannot be unpacked.
ApplyOperation(points, segment_idx, operation, break_margin, break_width_max, projection_max, direction_bias, centroid, bounds, distortable_points, squarewave_independent_directions, squarewave_opposite_prob, rnd) ==
    IF operation = "split_offset" THEN
        LET r == OpSplitOffset(points, segment_idx, break_margin, break_width_max,
                               projection_max, direction_bias, centroid, bounds, rnd)
        IN  IF r.ok THEN Returned(r.points, distortable_points) ELSE Raised
    ELSE IF operation = "sawtooth" THEN
        LET r == OpSawtooth(points, segment_idx, break_margin, break_width_max,
                            projection_max, direction_bias, centroid, bounds, rnd)
        IN  IF r.ok THEN Returned(r.points, distortable_points) ELSE Raised
    ELSE IF operation = "squarewave" THEN
        LET r == OpSquarewave(points, segment_idx, break_margin, break_width_max,
                              projection_max, direction_bias, centroid, bounds,
                              squarewave_independent_directions,
                              squarewave_opposite_prob, rnd)
        IN  IF r.ok THEN Returned(r.points, distortable_points) ELSE Raised
    ELSE IF operation = "remove_point" THEN
        OpRemovePoint(points, segment_idx, distortable_points)
    ELSE IF operation = "distort_original" THEN
        OpDistortOriginal(points, projection_max, direction_bias, centroid, bounds,
                          distortable_points, rnd)
    ELSE Raised

\* ------------------------------------------------------------------- state
VARIABLES
    request,            \* method_name, shape_name and raw_params of call
    pc,                 \* position of the call
    params,             \* the keyword arguments of dynamic_polygon
    heap,               \* the objects reachable from the call: id -> object
    next_id,            \* the next object id
    current_points,     \* id of the list bound to current_points
    distortable_points, \* the distortable list (never shared)
    centroid,           \* centroid of the boundary, updated on ACCEPT
    stats,              \* id of the stats dict
    snapshots,          \* the list of snapshot Polygons
    iteration,          \* loop variable of the evolution loop
    segment_idx,        \* edge chosen for the iteration (1-based)
    operation,          \* operation chosen for the iteration
    success,            \* success flag of the iteration
    attempt_count,      \* attempts made in the iteration
    result,             \* what the call returned
    error,              \* the exception the call raised, "" if none
    original            \* history: which boundary positions hold a vertex of
                        \* the initial construction

vars == <<request, pc, params, heap, next_id, current_points, distortable_points, centroid,
          stats, snapshots, iteration, segment_idx, operation, success,
          attempt_count, result, error, original>>

\* ------------------------------------------------------------ object heap
ListObj(items) == [type |-> "list", items |-> items]
GeometryObj(points) == [type |-> "geometry", points |-> points]
StatsObj(succ, failed, used) ==
    [type |-> "stats", successful_modifications |-> succ,
     failed_attempts |-> failed, operations_used |-> used]
OperationsUsedObj(counts) == [type |-> "operations_used", counts |-> counts]

\* Polygon(name, points): name is a direct attribute, attrs['geometry'] a new
\* dict holding the list it was given, attrs['procedure'] set by the caller
Polygon(name, geometry, procedure) ==
    [name |-> name, geometry |-> geometry, procedure |-> procedure]

Points == heap[current_points].items
Stats == heap[stats]
OperationsUsed == heap[Stats.operations_used].counts

\* stats.copy(): a new dict with the same values, the nested dict shared
StatsCopy == StatsObj(Stats.successful_modifications, Stats.failed_attempts,
                      Stats.operations_used)

SnapshotName(name, k) == name \o "_iter_" \o ToString(k)
FinalName(name) == name \o "_final"

\* the procedure dict of an iteration snapshot
SnapshotProcedure(name, k, stats_copy) ==
    [type |-> "procedure", method |-> "dynamic_polygon", is_snapshot |-> TRUE,
     snapshot_of |-> name, iteration |-> k, stats |-> stats_copy]

\* Objects of a snapshot of list `items` with the stats copy `sc`, allocated
\* from id `base`: the copied list, its geometry dict, the stats copy, the
\* procedure dict
SnapshotObjects(base, items, sc, name, k) ==
    (base :> ListObj(items)) @@ (base + 1 :> GeometryObj(base))
    @@ (base + 2 :> sc) @@ (base + 3 :> SnapshotProcedure(name, k, base + 2))

SnapshotEntity(base, name, k) == Polygon(SnapshotName(name, k), base + 1, base + 3)

\* an exception that reaches the caller: its class and the lines of its message
Err(type, lines) == [type |-> type, message |-> lines]
NoError == Err("", <<>>)

\* a [name, weight] pair of the operation list; weights are Python numbers
WeightOf(pair) == pair[2]
NameOf(pair) == pair[1]

\* the vertices parameter: an int, or a (lo, hi) tuple
Fixed(n) == [kind |-> "int", value |-> n]
Range(lo, hi) == [kind |-> "range", lo |-> lo, hi |-> hi]

VertexCounts(vertices) ==
    IF vertices.kind = "range" THEN vertices.lo..vertices.hi ELSE {vertices.value}

\* ----------------------------------------------------------- the driver
\* dynamic_polygon up to the evolution loop: vertex count, initial vertices,
\* connection, rounding, statistics, the iteration-0 snapshot
Construct ==
    /\ pc = "start"
    /\ params.verbose <= 0
    /\ \E num_vertices \in VertexCounts(params.vertices) :
         /\ num_vertices >= 1
         /\ \E raw \in [1..num_vertices -> RawPoints(params.bounds)] :
              LET connected_points == RoundAll(ConnectVertices(raw, params.connect))
                  used == [op \in { NameOf(params.operations[i]) :
                                      i \in 1..Len(params.operations) } |-> 0]
                  base == (1 :> OperationsUsedObj(used)) @@ (2 :> StatsObj(0, 0, 1))
                          @@ (3 :> ListObj(connected_points))
              IN  /\ distortable_points' = connected_points
                  /\ original' = [k \in 1..num_vertices |-> TRUE]
                  /\ centroid' = ComputeCentroid(connected_points)
                  /\ stats' = 2
                  /\ current_points' = 3
                  /\ IF params.save_iterations
                     THEN /\ heap' = base @@ SnapshotObjects(4, connected_points,
                                                             StatsObj(0, 0, 1), params.name, 0)
                          /\ snapshots' = <<SnapshotEntity(4, params.name, 0)>>
                          /\ next_id' = 8
                     ELSE /\ heap' = base
                          /\ snapshots' = <<>>
                          /\ next_id' = 4
    /\ iteration' = 0
    /\ pc' = IF params.iterations > 0 THEN "select" ELSE "finish"
    /\ UNCHANGED <<request, params, segment_idx, operation, success, attempt_count,
                   result, error>>

\* the construction phase raises: no vertex to average (division by zero in
\* the angle sort), or verbose > 0 with [name, weight] lists as dict keys
ConstructRaises ==
    /\ pc = "start"
    /\ \/ /\ \E num_vertices \in VertexCounts(params.vertices) : num_vertices < 1
          /\ error' = Err("ZeroDivisionError", <<>>)
       \/ /\ \E num_vertices \in VertexCounts(params.vertices) : num_vertices >= 1
          /\ params.verbose > 0
          /\ error' = Err("TypeError", <<>>)
    /\ pc' = "error"
    /\ UNCHANGED <<original, request, params, heap, next_id, current_points, distortable_points, centroid,
                   stats, snapshots, iteration, segment_idx, operation, success,
                   attempt_count, result>>

\* operations with a positive weight
EligibleOps(operations) ==
    { NameOf(operations[i]) :
        i \in { j \in 1..Len(operations) : RLt(RZero, WeightOf(operations[j])) } }

\* variant: no break on success, the retry loop always runs to max_retries
AfterAttemptNoBreak(succeeded, count, max_retries) ==
    IF count < max_retries THEN "attempt" ELSE "end_iter"

\* variant: an iteration that exhausts its retries is fatal
AfterAttemptEscalates(succeeded, count, max_retries) ==
    IF succeeded THEN "end_iter"
    ELSE IF count < max_retries THEN "attempt" ELSE "error"

\* variant: the retry loop gives up one attempt early
AfterAttemptOneShort(succeeded, count, max_retries) ==
    IF succeeded THEN "end_iter"
    ELSE IF count < max_retries - 1 THEN "attempt" ELSE "end_iter"

\* variant: the retry loop only ends on success
AfterAttemptForever(succeeded, count, max_retries) ==
    IF succeeded THEN "end_iter" ELSE "attempt"

\* where the retry loop goes after an attempt: break on success, else the
\* next attempt while attempts remain
AfterAttempt(succeeded, count, max_retries) ==
    IF succeeded THEN "end_iter"
    ELSE IF count < max_retries THEN "attempt" ELSE "end_iter"

\* SELECT and CHOOSE-OP of one iteration
Select ==
    /\ pc = "select"
    /\ EligibleOps(params.operations) # {}
    /\ segment_idx' \in SelectSegment(Points, params.min_segment_length)
    /\ operation' \in EligibleOps(params.operations)
    /\ success' = FALSE
    /\ attempt_count' = 0
    /\ pc' = AfterAttempt(FALSE, 0, params.max_retries)
    /\ UNCHANGED <<original, request, params, heap, next_id, current_points, distortable_points, centroid,
                   stats, snapshots, iteration, result, error>>

SelectRaises ==
    /\ pc = "select"
    /\ EligibleOps(params.operations) = {}
    /\ pc' = "error"
    /\ error' = Err("ValueError", <<"No operations with positive weights available">>)
    /\ UNCHANGED <<original, request, params, heap, next_id, current_points, distortable_points, centroid,
                   stats, snapshots, iteration, segment_idx, operation, success,
                   attempt_count, result>>

Draws(used) == IF used THEN RandomValues ELSE {RZero}

\* the random draws one attempt of `op` makes
RndSet(op) ==
    LET edge == op \in {"split_offset", "sawtooth", "squarewave"}
        sq == op = "squarewave"
        ind == sq /\ params.squarewave_independent_directions
        dis == op = "distort_original"
    IN  [t : Draws(edge), w : Draws(edge), u : Draws(edge), u2 : Draws(sq),
         coin : Draws(edge /\ params.direction_bias = "random"),
         cl : Draws(ind), cr : Draws(ind),
         k : IF dis /\ Len(distortable_points) > 0
             THEN 1..Len(distortable_points) ELSE {1},
         f : Draws(dis)]

Candidate(rnd) ==
    ApplyOperation(Points, segment_idx, operation, params.break_margin,
                   params.break_width_max, params.projection_max,
                   params.direction_bias, centroid, params.bounds,
                   distortable_points, params.squarewave_independent_directions,
                   params.squarewave_opposite_direction_prob, rnd)

\* what one attempt of the chosen operation on the chosen edge can produce
Candidates == { Candidate(rnd) : rnd \in RndSet(operation) }

\* the candidate passes: the operation returned and the result validates
Passes(r) == r.ok /\ IsValidPolygon(r.points)

\* ACCEPT: the heap after current_points is rebound to the new list and the
\* counters are incremented in place
AcceptHeapNoCount(h, new_id, new_points, op) ==
    [i \in (DOMAIN h \ {current_points}) \cup {new_id} |->
        IF i = new_id THEN ListObj(new_points)
        ELSE IF i = stats
             THEN [h[i] EXCEPT !.successful_modifications = @ + 1]
        ELSE h[i]]

AcceptHeap(h, new_id, new_points, op) ==
    [i \in (DOMAIN h \ {current_points}) \cup {new_id} |->
        IF i = new_id THEN ListObj(new_points)
        ELSE IF i = stats
             THEN [h[i] EXCEPT !.successful_modifications = @ + 1]
        ELSE IF i = h[stats].operations_used
             THEN [h[i] EXCEPT !.counts[op] = @ + 1]
        ELSE h[i]]

\* history: an insertion puts its new points after the selected vertex, a
\* removal deletes the selected position, a move keeps every position
OriginalAfter(op, idx, new_points) ==
    IF op = "remove_point" THEN RemoveAt(original, idx)
    ELSE IF op = "distort_original" THEN original
    ELSE Insert(original, idx, [j \in 1..(Len(new_points) - Len(original)) |-> FALSE])

AttemptAccept ==
    /\ pc = "attempt"
    /\ \E r \in Candidates :
         /\ Passes(r)
         /\ heap' = AcceptHeap(heap, next_id, r.points, operation)
         /\ current_points' = next_id
         /\ next_id' = next_id + 1
         /\ distortable_points' = r.distortable
         /\ centroid' = ComputeCentroid(r.points)
         /\ original' = OriginalAfter(operation, segment_idx, r.points)
    /\ success' = TRUE
    /\ attempt_count' = attempt_count + 1
    /\ pc' = AfterAttempt(TRUE, attempt_count + 1, params.max_retries)
    /\ UNCHANGED <<request, params, stats, snapshots, iteration, segment_idx, operation,
                   result, error>>

\* variant: a failed attempt leaves the boundary list rotated in place
FailHeapRotates(h) ==
    [h EXCEPT ![stats].failed_attempts = @ + 1,
              ![current_points].items = Tail(@) \o <<Head(@)>>]

\* a failed attempt: the operation raised, or the candidate is rejected
FailHeap(h) == [h EXCEPT ![stats].failed_attempts = @ + 1]

AttemptFail ==
    /\ pc = "attempt"
    /\ \E r \in Candidates : ~Passes(r)
    /\ heap' = FailHeap(heap)
    /\ attempt_count' = attempt_count + 1
    /\ pc' = AfterAttempt(FALSE, attempt_count + 1, params.max_retries)
    /\ UNCHANGED <<original, request, params, next_id, current_points, distortable_points, centroid,
                   stats, snapshots, iteration, segment_idx, operation, success,
                   result, error>>

\* variant: the snapshot is taken one iteration early
SnapshotDueEarly(k, snapshot_interval) == (k + 1) % snapshot_interval = 0

\* the iteration whose 1-based number is k is snapshotted
SnapshotDue(k, snapshot_interval) == k % snapshot_interval = 0

\* end of an iteration: the optional snapshot, then the next iteration
EndIteration ==
    /\ pc = "end_iter"
    /\ IF params.save_iterations /\ SnapshotDue(iteration + 1, params.snapshot_interval)
       THEN /\ heap' = heap @@ SnapshotObjects(next_id, Points, StatsCopy,
                                               params.name, iteration + 1)
            /\ snapshots' = Append(snapshots,
                                   SnapshotEntity(next_id, params.name, iteration + 1))
            /\ next_id' = next_id + 4
       ELSE UNCHANGED <<heap, snapshots, next_id>>
    /\ iteration' = iteration + 1
    /\ pc' = IF iteration + 1 < params.iterations THEN "select" ELSE "finish"
    /\ UNCHANGED <<original, request, params, current_points, distortable_points, centroid, stats,
                   segment_idx, operation, success, attempt_count, result, error>>

\* the 'parameters' entry of the final polygon's procedure dict
RecordedParameters ==
    [vertices |-> params.vertices, bounds |-> params.bounds,
     iterations |-> params.iterations, operations |-> params.operations,
     connect |-> params.connect, break_margin |-> params.break_margin,
     break_width_max |-> params.break_width_max,
     projection_max |-> params.projection_max,
     min_segment_length |-> params.min_segment_length,
     squarewave_independent_directions |-> params.squarewave_independent_directions,
     squarewave_opposite_direction_prob |-> params.squarewave_opposite_direction_prob,
     direction_bias |-> params.direction_bias, verbose |-> params.verbose,
     save_iterations |-> params.save_iterations]

FinalProcedure(is_final) ==
    [type |-> "procedure", method |-> "dynamic_polygon",
     parameters |-> RecordedParameters, statistics |-> stats, is_final |-> is_final]

\* PHASE 5: the final polygon holds the live list; with save_iterations the
\* final snapshot takes a shallow copy of the final polygon's attrs, so its
\* geometry and procedure entries are the final polygon's own dicts
Finish ==
    /\ pc = "finish"
    /\ LET geometry == next_id
           procedure == next_id + 1
           polygon == Polygon(params.name, geometry, procedure)
           final_snapshot == Polygon(FinalName(params.name), geometry, procedure)
       IN  /\ heap' = heap @@ (geometry :> GeometryObj(current_points))
                           @@ (procedure :> FinalProcedure(params.save_iterations))
           /\ result' = IF params.save_iterations
                        THEN [kind |-> "list",
                              shapes |-> snapshots \o <<final_snapshot, polygon>>]
                        ELSE [kind |-> "polygon", shapes |-> <<polygon>>]
    /\ next_id' = next_id + 2
    /\ pc' = "done"
    /\ UNCHANGED <<original, request, params, current_points, distortable_points, centroid, stats,
                   snapshots, iteration, segment_idx, operation, success,
                   attempt_count, error>>

\* ------------------------------------------------ parameter layer (call)
\* A raw parameter value is the string of the script, kept as its
\* comma-separated fields; a field is an integer literal, a decimal literal,
\* a word, or "op:weight" (the text before the colon and the class and value
\* of what follows it).
Field(kind, num, den, text, wkind) ==
    [kind |-> kind, num |-> num, den |-> den, text |-> text, wkind |-> wkind]
IntLit(n) == <<Field("int", n, 1, "", "")>>
FloatLit(n, d) == <<Field("float", n, d, "", "")>>
Word(s) == <<Field("word", 0, 1, s, "")>>
Weighted(op, w) == <<Field("pair", w[1].num, w[1].den, op, w[1].kind)>>

\* str.upper() and str.lower() on the keys and words that occur
UpperOf(s) ==
    CASE s = "vertices" -> "VERTICES" [] s = "bounds" -> "BOUNDS"
      [] s = "iterations" -> "ITERATIONS" [] s = "connect" -> "CONNECT"
      [] s = "operations" -> "OPERATIONS" [] s = "break_margin" -> "BREAK_MARGIN"
      [] s = "break_width_max" -> "BREAK_WIDTH_MAX"
      [] s = "projection_max" -> "PROJECTION_MAX"
      [] s = "min_segment_length" -> "MIN_SEGMENT_LENGTH"
      [] s = "squarewave_independent_directions" -> "SQUAREWAVE_INDEPENDENT_DIRECTIONS"
      [] s = "squarewave_opposite_direction_prob" -> "SQUAREWAVE_OPPOSITE_DIRECTION_PROB"
      [] s = "max_retries" -> "MAX_RETRIES" [] s = "direction_bias" -> "DIRECTION_BIAS"
      [] s = "return_mode" -> "RETURN_MODE" [] s = "verbose" -> "VERBOSE"
      [] s = "save_iterations" -> "SAVE_ITERATIONS"
      [] s = "snapshot_interval" -> "SNAPSHOT_INTERVAL"
      [] s = "true" -> "TRUE" [] s = "yes" -> "YES" [] s = "on" -> "ON"
      [] s = "false" -> "FALSE" [] s = "foo" -> "FOO"
      [] OTHER -> s
LowerOf(s) ==
    CASE s = "SIMPLE" -> "simple" [] s = "COMPLEX" -> "complex"
      [] s = "ORGANIC" -> "organic" [] s = "NOSUCH" -> "nosuch"
      [] OTHER -> s

Converted(val) == [ok |-> TRUE, val |-> val]
Rejected == [ok |-> FALSE, val |-> 0]

IsInt(f) == f.kind = "int"
IsFloat(f) == f.kind \in {"int", "float"}
AllInt(value) == \A i \in 1..Len(value) : IsInt(value[i])

int_converter(value) ==
    IF Len(value) = 1 /\ IsInt(value[1]) THEN Converted(value[1].num) ELSE Rejected

float_converter(value) ==
    IF Len(value) = 1 /\ IsFloat(value[1])
    THEN Converted(Rat(value[1].num, value[1].den)) ELSE Rejected

int_or_range(value) ==
    IF Len(value) >= 2
    THEN IF AllInt(value) /\ Len(value) = 2
         THEN Converted(Range(value[1].num, value[2].num)) ELSE Rejected
    ELSE IF IsInt(value[1]) THEN Converted(Fixed(value[1].num)) ELSE Rejected

bounds_converter(value) ==
    IF AllInt(value) /\ Len(value) = 4
    THEN Converted(<<value[1].num, value[2].num, value[3].num, value[4].num>>)
    ELSE Rejected

bool_converter(value) ==
    Converted(/\ Len(value) = 1
              /\ \/ value[1].kind = "word" /\ UpperOf(value[1].text) \in {"TRUE", "YES", "ON"}
                 \/ value[1].kind = "int" /\ value[1].num = 1)

choice_converter(value, choices) ==
    IF Len(value) = 1 /\ value[1].kind = "word" /\ value[1].text \in choices
    THEN Converted(value[1].text) ELSE Rejected

\* the string branch, called without choices: names are not checked
convert_weighted_list(value) ==
    IF value = Word("") THEN Rejected
    ELSE IF \E i \in 1..Len(value) :
               /\ value[i].kind = "pair"
               /\ \/ value[i].wkind \notin {"int", "float"}
                  \/ RLt(Rat(value[i].num, value[i].den), RZero)
         THEN Rejected
    ELSE Converted([i \in 1..Len(value) |->
                      IF value[i].kind = "pair"
                      THEN <<value[i].text, Rat(value[i].num, value[i].den)>>
                      ELSE <<value[i].text, ROne>>])

\* self.presets['dynamic_polygon']
Presets ==
    [simple |-> [vertices |-> Range(5, 8), iterations |-> 5,
                 operations |-> <<<<"split_offset", ROne>>>>,
                 break_margin |-> Rat(2, 10), break_width_max |-> Rat(3, 10),
                 projection_max |-> Rat(15, 10)],
     complex |-> [vertices |-> Range(8, 12), iterations |-> 20,
                  operations |-> <<<<"split_offset", ROne>>, <<"sawtooth", ROne>>,
                                   <<"squarewave", ROne>>>>,
                  break_margin |-> Rat(15, 100), break_width_max |-> Rat(6, 10),
                  projection_max |-> Rat(25, 10),
                  squarewave_independent_directions |-> TRUE,
                  squarewave_opposite_direction_prob |-> Rat(3, 10)],
     organic |-> [vertices |-> Range(6, 10), iterations |-> 12,
                  operations |-> <<<<"sawtooth", ROne>>>>,
                  break_margin |-> Rat(2, 10), break_width_max |-> Rat(5, 10),
                  projection_max |-> RInt(2), direction_bias |-> "inward"]]

\* self.param_specs['dynamic_polygon'], in declaration order; the entry of
\* 'operations' has no 'required' key
ParamOrder ==
    <<"vertices", "bounds", "iterations", "connect", "operations", "break_margin",
      "break_width_max", "projection_max", "min_segment_length",
      "squarewave_independent_directions", "squarewave_opposite_direction_prob",
      "max_retries", "direction_bias", "return_mode", "verbose", "save_iterations",
      "snapshot_interval">>

OperationChoices ==
    {"split_offset", "sawtooth", "squarewave", "remove_point", "distort_original"}

DefaultOperations ==
    <<<<"split_offset", ROne>>, <<"sawtooth", ROne>>, <<"squarewave", RZero>>,
      <<"remove_point", RZero>>, <<"distort_original", RZero>>>>

ParamSpecs ==
    [vertices |-> [type |-> "int_or_range", required |-> TRUE, default |-> Range(5, 8)],
     bounds |-> [type |-> "bounds", required |-> TRUE],
     iterations |-> [type |-> "int", required |-> FALSE, default |-> 10],
     connect |-> [type |-> "choice", choices |-> {"angle_sort", "convex_hull"},
                  required |-> FALSE, default |-> "angle_sort"],
     operations |-> [type |-> "weighted_list", default |-> DefaultOperations,
                     choices |-> OperationChoices],
     break_margin |-> [type |-> "float", required |-> FALSE, default |-> Rat(15, 100)],
     break_width_max |-> [type |-> "float", required |-> FALSE, default |-> Rat(1, 2)],
     projection_max |-> [type |-> "float", required |-> FALSE, default |-> RInt(2)],
     min_segment_length |-> [type |-> "int", required |-> FALSE, default |-> 10],
     squarewave_independent_directions |->
         [type |-> "bool", required |-> FALSE, default |-> FALSE],
     squarewave_opposite_direction_prob |->
         [type |-> "float", required |-> FALSE, default |-> Rat(2, 10)],
     max_retries |-> [type |-> "int", required |-> FALSE, default |-> 10],
     direction_bias |-> [type |-> "choice", choices |-> {"inward", "outward", "random"},
                         required |-> FALSE, default |-> "random"],
     return_mode |-> [type |-> "choice", choices |-> {"single", "group", "individual"},
                      required |-> FALSE, default |-> "single"],
     verbose |-> [type |-> "int", required |-> FALSE, default |-> 0],
     save_iterations |-> [type |-> "bool", required |-> FALSE, default |-> FALSE],
     snapshot_interval |-> [type |-> "int", required |-> FALSE, default |-> 1]]

\* the converter call of one explicit value
Convert(param_config, raw_value) ==
    CASE param_config.type = "choice" -> choice_converter(raw_value, param_config.choices)
      [] param_config.type = "int" -> int_converter(raw_value)
      [] param_config.type = "float" -> float_converter(raw_value)
      [] param_config.type = "int_or_range" -> int_or_range(raw_value)
      [] param_config.type = "bounds" -> bounds_converter(raw_value)
      [] param_config.type = "bool" -> bool_converter(raw_value)
      [] param_config.type = "weighted_list" -> convert_weighted_list(raw_value)

\* the loop over the parameter spec from its i-th entry on: the converted
\* parameters and the error lines, or the KeyError of param_config['required']
RECURSIVE ResolveFrom(_, _, _, _, _)
ResolveFrom(i, raw_params, preset_values, converted_params, errors) ==
    IF i > Len(ParamOrder)
    THEN [raised |-> "", converted_params |-> converted_params, errors |-> errors]
    ELSE LET param_name == ParamOrder[i]
             param_config == ParamSpecs[param_name]
             keys == { key \in DOMAIN raw_params : UpperOf(key) = UpperOf(param_name) }
         IN  IF keys # {}
             THEN LET c == Convert(param_config, raw_params[CHOOSE key \in keys : TRUE])
                  IN  IF c.ok
                      THEN ResolveFrom(i + 1, raw_params, preset_values,
                                       (param_name :> c.val) @@ converted_params, errors)
                      ELSE ResolveFrom(i + 1, raw_params, preset_values, converted_params,
                                       Append(errors, "Invalid value for " \o param_name))
             ELSE IF param_name \in DOMAIN preset_values
             THEN ResolveFrom(i + 1, raw_params, preset_values,
                              (param_name :> preset_values[param_name]) @@ converted_params,
                              errors)
             ELSE IF "required" \notin DOMAIN param_config
             THEN [raised |-> "KeyError", converted_params |-> converted_params,
                   errors |-> errors]
             ELSE IF param_config.required
             THEN ResolveFrom(i + 1, raw_params, preset_values, converted_params,
                              Append(errors, "Missing required parameter: " \o param_name))
             ELSE ResolveFrom(i + 1, raw_params, preset_values,
                              (param_name :> param_config.default) @@ converted_params,
                              errors)

KnownParams == { UpperOf(ParamOrder[i]) : i \in 1..Len(ParamOrder) }

\* the raw keys that match no parameter
UnknownKeys(raw_params) ==
    { key \in DOMAIN raw_params : UpperOf(key) \notin KnownParams /\ UpperOf(key) # "PRESET" }

RECURSIVE UnknownErrors(_)
UnknownErrors(keys) ==
    IF keys = {} THEN <<>>
    ELSE LET key == CHOOSE k \in keys : TRUE
         IN  <<"Unknown parameter: " \o key>> \o UnknownErrors(keys \ {key})

Registry == {"dynamic_polygon"}

WithoutKey(f, key) == [k \in DOMAIN f \ {key} |-> f[k]]

\* the outcome of call(method_name, shape_name, raw_params) up to the
\* dispatch: the exception raised, or the keyword arguments of the driver
Resolve(method_name, raw_params) ==
    IF method_name \notin Registry
    THEN [raised |-> "ValueError", errors |-> <<"Unknown procedural method">>]
    ELSE LET has_preset == "PRESET" \in DOMAIN raw_params
             preset_name == IF has_preset THEN LowerOf(raw_params["PRESET"][1].text) ELSE ""
             rest == IF has_preset THEN WithoutKey(raw_params, "PRESET") ELSE raw_params
         IN  IF has_preset /\ preset_name \notin DOMAIN Presets
             THEN [raised |-> "ValueError", errors |-> <<"Unknown preset">>]
             ELSE LET preset_values == IF has_preset THEN Presets[preset_name] ELSE <<>>
                      r == ResolveFrom(1, rest, preset_values, <<>>, <<>>)
                      errors == r.errors \o UnknownErrors(UnknownKeys(rest))
                  IN  IF r.raised # "" THEN [raised |-> r.raised, errors |-> <<>>]
                      ELSE IF errors # <<>>
                      THEN [raised |-> "ValueError", errors |-> errors]
                      ELSE [raised |-> "", errors |-> <<>>,
                            converted_params |-> r.converted_params]

\* call raises: unknown method or preset, parameter errors, or KeyError
CallRaises ==
    /\ pc = "call"
    /\ LET r == Resolve(request.method_name, request.raw_params)
       IN  /\ r.raised # ""
           /\ error' = Err(r.raised, r.errors)
    /\ pc' = "error"
    /\ UNCHANGED <<original, request, params, heap, next_id, current_points, distortable_points,
                   centroid, stats, snapshots, iteration, segment_idx, operation,
                   success, attempt_count, result>>

\* call dispatches to the driver with the converted parameters
CallDispatches ==
    /\ pc = "call"
    /\ LET r == Resolve(request.method_name, request.raw_params)
       IN  /\ r.raised = ""
           /\ params' = ("name" :> request.shape_name) @@ r.converted_params
    /\ pc' = "start"
    /\ UNCHANGED <<original, request, heap, next_id, current_points, distortable_points, centroid,
                   stats, snapshots, iteration, segment_idx, operation, success,
                   attempt_count, result, error>>

Next ==
    \/ Construct
    \/ ConstructRaises
    \/ Select
    \/ SelectRaises
    \/ AttemptAccept
    \/ AttemptFail
    \/ EndIteration
    \/ Finish

\* -------------------------------------------------- calls of the driver
MaxIterations == 2
MaxRetries == 2

\* the rectangle the models draw in
SmallBounds == <<0, 0, 2, 2>>

\* a call on SmallBounds with three vertices, one iteration, one attempt and
\* the defaults of param_specs['dynamic_polygon'] for the rest
DefaultParams ==
    [name |-> "s", vertices |-> Fixed(3), bounds |-> SmallBounds,
     iterations |-> 1, connect |-> "angle_sort", operations |-> DefaultOperations,
     break_margin |-> Rat(15, 100), break_width_max |-> Rat(1, 2),
     projection_max |-> RInt(2), min_segment_length |-> 10,
     squarewave_independent_directions |-> FALSE,
     squarewave_opposite_direction_prob |-> Rat(2, 10),
     max_retries |-> 1, direction_bias |-> "random", return_mode |-> "single",
     verbose |-> 0, save_iterations |-> FALSE, snapshot_interval |-> 1]

SplitOnly == <<<<"split_offset", ROne>>>>
AllOperations ==
    <<<<"split_offset", ROne>>, <<"sawtooth", ROne>>, <<"squarewave", ROne>>,
      <<"remove_point", ROne>>, <<"distort_original", ROne>>>>
ZeroWeights == <<<<"split_offset", RZero>>, <<"sawtooth", RZero>>>>

\* the default operations, every iteration count and retry limit
RetryCalls ==
    { [DefaultParams EXCEPT !.iterations = it, !.max_retries = mr] :
        it \in 0..MaxIterations, mr \in 1..MaxRetries }

\* snapshots of three and four initial vertices
SnapshotCalls ==
    { [DefaultParams EXCEPT !.operations = SplitOnly, !.direction_bias = "inward",
                            !.save_iterations = TRUE, !.iterations = it,
                            !.snapshot_interval = si, !.vertices = Fixed(n)] :
        it \in 0..MaxIterations, si \in 1..2, n \in 3..4 }

\* every operation on three or four vertices, either connection method
OperationCalls ==
    { [DefaultParams EXCEPT !.operations = AllOperations, !.vertices = Range(3, 4),
                            !.connect = c, !.min_segment_length = 1] :
        c \in {"angle_sort", "convex_hull"} }

\* an operation list of total weight zero
ZeroWeightCalls ==
    { [DefaultParams EXCEPT !.operations = ZeroWeights, !.iterations = it] :
        it \in 0..MaxIterations }

\* sequences of insertions, removals and moves of original vertices
SequenceOperations ==
    <<<<"split_offset", ROne>>, <<"remove_point", ROne>>, <<"distort_original", ROne>>>>

SequenceCalls ==
    { [DefaultParams EXCEPT !.operations = SequenceOperations, !.vertices = Range(3, 4),
                            !.iterations = MaxIterations, !.direction_bias = bias] :
        bias \in {"inward", "outward"} }

\* verbose output, and no vertex at all
RaisingCalls ==
    { [DefaultParams EXCEPT !.verbose = 2], [DefaultParams EXCEPT !.vertices = Fixed(0)] }

ParamSets ==
    RetryCalls \cup SnapshotCalls \cup OperationCalls \cup SequenceCalls
    \cup ZeroWeightCalls \cup RaisingCalls

NoRequest == [method_name |-> "", shape_name |-> "", raw_params |-> <<>>]

InitDriver ==
    /\ heap = <<>>
    /\ next_id = 1
    /\ current_points = 0
    /\ distortable_points = <<>>
    /\ centroid = <<RZero, RZero>>
    /\ stats = 0
    /\ snapshots = <<>>
    /\ iteration = 0
    /\ segment_idx = 0
    /\ operation = ""
    /\ success = FALSE
    /\ attempt_count = 0
    /\ result = [kind |-> "none", shapes |-> <<>>]
    /\ error = NoError
    /\ original = <<>>

\* dynamic_polygon entered with resolved parameters
Init ==
    /\ request = NoRequest
    /\ pc = "start"
    /\ params \in ParamSets
    /\ InitDriver

Spec == Init /\ [][Next]_vars

\* ------------------------------------------------------ calls through call
NextCall ==
    \/ CallRaises
    \/ CallDispatches
    \/ Next

\* PARAM=value assignments of a PROC command
SmallBoundsText == IntLit(0) \o IntLit(0) \o IntLit(2) \o IntLit(2)

\* a well-formed call that runs one iteration of split_offset
BaseRaw ==
    [VERTICES |-> IntLit(3), BOUNDS |-> SmallBoundsText, ITERATIONS |-> IntLit(1),
     MAX_RETRIES |-> IntLit(1), OPERATIONS |-> Word("split_offset")]

With(raw, key, value) == (key :> value) @@ raw

\* well-formed calls: explicit values, a preset, snapshots
WellFormedRaws ==
    { BaseRaw,
      With(WithoutKey(BaseRaw, "OPERATIONS"), "PRESET", Word("SIMPLE")),
      With(BaseRaw, "PRESET", Word("ORGANIC")),
      With(With(BaseRaw, "SAVE_ITERATIONS", Word("true")), "ITERATIONS", IntLit(2)),
      With(BaseRaw, "OPERATIONS",
           Weighted("split_offset", FloatLit(1, 2)) \o Word("sawtooth")),
      With(BaseRaw, "VERBOSE", IntLit(2)) }

\* one parameter outside the inbound contract of the driver
MalformedRaws ==
    { With(BaseRaw, "BOUNDS", IntLit(2) \o IntLit(2) \o IntLit(0) \o IntLit(0)),
      With(BaseRaw, "BOUNDS", IntLit(0) \o IntLit(2) \o IntLit(2) \o IntLit(0)),
      With(BaseRaw, "ITERATIONS", IntLit(-1)),
      With(BaseRaw, "MAX_RETRIES", IntLit(0)),
      With(BaseRaw, "BREAK_MARGIN", FloatLit(9, 10)),
      With(BaseRaw, "BREAK_WIDTH_MAX", IntLit(7)),
      With(BaseRaw, "PROJECTION_MAX", IntLit(-1)),
      With(BaseRaw, "VERBOSE", IntLit(5)),
      With(BaseRaw, "OPERATIONS", Weighted("split_offset", IntLit(0))),
      With(With(BaseRaw, "OPERATIONS", Weighted("split_offset", IntLit(0))),
           "ITERATIONS", IntLit(0)),
      With(BaseRaw, "OPERATIONS", Word("bogus")) }

\* calls the resolution finds problems in
ProblemRaws ==
    { [VERTICES |-> IntLit(3), BOUNDS |-> SmallBoundsText],
      WithoutKey(BaseRaw, "OPERATIONS"),
      With(BaseRaw, "BOUNDS", Word("abc")),
      With(BaseRaw, "FOO", IntLit(1)),
      With(With(WithoutKey(BaseRaw, "VERTICES"), "BOUNDS", Word("abc")), "FOO", IntLit(1)),
      With(With(WithoutKey(BaseRaw, "OPERATIONS"), "BOUNDS", Word("abc")),
           "FOO", IntLit(1)),
      With(With(BaseRaw, "ITERATIONS", FloatLit(3, 2)),
           "OPERATIONS", Weighted("split_offset", IntLit(-1))),
      With(With(BaseRaw, "VERTICES", IntLit(3) \o IntLit(4) \o IntLit(5)),
           "CONNECT", Word("spiral")),
      With(BaseRaw, "OPERATIONS", Word("")),
      With(BaseRaw, "PRESET", Word("NOSUCH")) }

Requests ==
    { [method_name |-> "dynamic_polygon", shape_name |-> "s", raw_params |-> raw] :
        raw \in WellFormedRaws \cup MalformedRaws \cup ProblemRaws }
    \cup { [method_name |-> "fractal_tree", shape_name |-> "s", raw_params |-> BaseRaw] }

\* ProceduralGenerators.call entered with the raw parameters of a script
InitCall ==
    /\ request \in Requests
    /\ pc = "call"
    /\ params = <<>>
    /\ InitDriver

SpecCall == InitCall /\ [][NextCall]_vars

\* ------------------------------------------------ the helpers on their own
\* _is_valid_polygon, _segments_intersect and _select_segment called directly
\* on a list of integer points
GridMax == 2
MaxPoints == 5
MaxSelectPoints == 4
Grid == { <<x, y>> : x, y \in 0..GridMax }
PointLists == UNION { [1..n -> Grid] : n \in 2..MaxPoints }
MinLengths == 0..3

InitPure ==
    /\ request = NoRequest
    /\ pc = "pure"
    /\ params = DefaultParams
    /\ \E points \in PointLists : heap = (1 :> ListObj(points))
    /\ next_id = 2
    /\ current_points = 1
    /\ distortable_points = <<>>
    /\ centroid = <<RZero, RZero>>
    /\ stats = 0
    /\ snapshots = <<>>
    /\ iteration = 0
    /\ segment_idx = 0
    /\ operation = ""
    /\ success = FALSE
    /\ attempt_count = 0
    /\ result = [kind |-> "none", shapes |-> <<>>]
    /\ error = NoError
    /\ original = <<>>

\* success = self._is_valid_polygon(points)
ValidatePolygon ==
    /\ pc = "pure"
    /\ success' = IsValidPolygon(Points)
    /\ pc' = "validated"
    /\ UNCHANGED <<original, request, params, heap, next_id, current_points,
                   distortable_points, centroid, stats, snapshots, iteration,
                   segment_idx, operation, attempt_count, result, error>>

\* success = self._segments_intersect(p1, p2, p3, p4)
IntersectSegments ==
    /\ pc = "pure"
    /\ Len(Points) = 4
    /\ success' = SegmentsIntersect(Points[1], Points[2], Points[3], Points[4])
    /\ pc' = "intersected"
    /\ UNCHANGED <<original, request, params, heap, next_id, current_points,
                   distortable_points, centroid, stats, snapshots, iteration,
                   segment_idx, operation, attempt_count, result, error>>

\* segment_idx = self._select_segment(points, min_segment_length)
SelectOnly ==
    /\ pc = "pure"
    /\ Len(Points) <= MaxSelectPoints
    /\ \E m \in MinLengths :
         /\ params' = [params EXCEPT !.min_segment_length = m]
         /\ segment_idx' \in SelectSegment(Points, m)
    /\ pc' = "selected"
    /\ UNCHANGED <<original, request, heap, next_id, current_points,
                   distortable_points, centroid, stats, snapshots, iteration,
                   operation, success, attempt_count, result, error>>

NextPure == ValidatePolygon \/ IntersectSegments \/ SelectOnly

SpecPure == InitPure /\ [][NextPure]_vars

\* ------------------------------------------------------------ properties
\* the point list of a polygon entity
PointsOf(polygon) == heap[heap[polygon.geometry].points].items

\* the entities the call has created so far: the snapshots and what it returned
Emitted ==
    { snapshots[i] : i \in DOMAIN snapshots } \cup
    { result.shapes[i] : i \in DOMAIN result.shapes }

\* the driver stands between two iterations, or has returned
AtIterationBoundary == pc \in {"select", "finish", "done"}

\* C1: at every iteration boundary (after the initial construction and after
\* every iteration) the current boundary has at least 3 points and passes the
\* self-intersection test.
C1_ValidAtIterationBoundary ==
    AtIterationBoundary => Len(Points) >= 3 /\ IsValidPolygon(Points)

\* p has integer coordinates inside the rectangle b = (x1, y1, x2, y2)
InRectangle(p, b) ==
    /\ p[1] \in Int /\ p[2] \in Int
    /\ b[1] <= p[1] /\ p[1] <= b[3]
    /\ b[2] <= p[2] /\ p[2] <= b[4]

\* C2: for integer bounds every point of every emitted polygon (iteration
\* snapshots, final snapshot, main polygon) and of the live boundary has
\* integer coordinates with x1 <= x <= x2 and y1 <= y <= y2.
C2_EmittedPointsInBounds ==
    /\ \A polygon \in Emitted :
          \A i \in 1..Len(PointsOf(polygon)) :
             InRectangle(PointsOf(polygon)[i], params.bounds)
    /\ current_points # 0 =>
          \A i \in 1..Len(Points) : InRectangle(Points[i], params.bounds)

\* a list of entities was returned after an accepted operation
C2_Witness ==
    /\ pc = "done"
    /\ result.kind = "list"
    /\ Len(snapshots) >= 2
    /\ Stats.successful_modifications >= 1

\* the objects an entity reaches: geometry dict, point list, procedure dict,
\* the statistics dict it records and that dict's per-operation counts
StatsOf(polygon) ==
    IF "stats" \in DOMAIN heap[polygon.procedure]
    THEN heap[polygon.procedure].stats ELSE heap[polygon.procedure].statistics

ObjectsOf(polygon) ==
    {polygon.geometry, heap[polygon.geometry].points, polygon.procedure,
     StatsOf(polygon), heap[StatsOf(polygon)].operations_used}

\* C3: with save_iterations every returned entity is an independent copy: no
\* two returned entities share a point list or a metadata object, and no
\* snapshot's point list is the live boundary list.
C3_IndependentCopies ==
    (pc = "done" /\ params.save_iterations) =>
        /\ \A i, j \in DOMAIN result.shapes :
              i # j => ObjectsOf(result.shapes[i]) \cap ObjectsOf(result.shapes[j]) = {}
        /\ \A i \in 1..(Len(result.shapes) - 1) :
              heap[result.shapes[i].geometry].points # current_points

\* C4: successful_modifications + failed_attempts <= iterations * max_retries
\* and successful_modifications <= iterations at every point of a call; every
\* attempt made so far is counted in exactly one of the two counters.
C4_StatisticsBound ==
    stats # 0 =>
        /\ Stats.successful_modifications + Stats.failed_attempts
              <= params.iterations * params.max_retries
        /\ Stats.successful_modifications <= params.iterations
        /\ Stats.successful_modifications + Stats.failed_attempts
              <= iteration * params.max_retries
                 + (IF pc \in {"attempt", "end_iter"} THEN attempt_count ELSE 0)
        /\ Stats.successful_modifications
              <= iteration + (IF pc \in {"attempt", "end_iter"} /\ success THEN 1 ELSE 0)

\* a call returned with every iteration accepted, one of them after a failure
C4_Witness ==
    /\ pc = "done"
    /\ params.iterations = MaxIterations
    /\ Stats.successful_modifications = params.iterations
    /\ Stats.failed_attempts >= 1

\* the boundary, the distortable set and the centroid are left as they are
BoundaryUnchanged ==
    /\ current_points' = current_points
    /\ heap'[current_points'].items = Points
    /\ distortable_points' = distortable_points
    /\ centroid' = centroid

\* C5: in an iteration whose attempts all fail (ABANDON) nothing changes the
\* boundary, the distortable set or the centroid: not the selection, not any
\* failed attempt, not the end of the iteration; successful_modifications is
\* unchanged, every failed attempt adds one to failed_attempts, all
\* max_retries attempts were made, and the driver goes on to the next
\* iteration without raising.
C5_AbandonFrame ==
    [][ /\ (pc = "select" /\ pc' # "error") =>
              BoundaryUnchanged /\ heap'[stats] = heap[stats]
        /\ (pc = "attempt" /\ ~success') =>
              /\ BoundaryUnchanged
              /\ heap'[stats].successful_modifications = Stats.successful_modifications
              /\ heap'[stats].failed_attempts = Stats.failed_attempts + 1
        /\ (pc = "end_iter" /\ ~success) =>
              /\ attempt_count = params.max_retries
              /\ BoundaryUnchanged
              /\ heap'[stats] = heap[stats]
              /\ iteration' = iteration + 1
              /\ pc' \in {"select", "finish"}
              /\ error' = NoError ]_vars

\* an iteration was abandoned after more than one failed attempt
C5_Witness ==
    /\ pc = "end_iter"
    /\ ~success
    /\ attempt_count = params.max_retries
    /\ attempt_count >= 2
    /\ Stats.failed_attempts >= attempt_count

\* the iteration number an iteration snapshot records
IterationOf(polygon) == heap[polygon.procedure].iteration

\* C6: every iteration snapshot holds the boundary as it stood at the end of
\* its iteration (the snapshot of the iteration just ended equals the current
\* boundary, in a list of its own) and so has at least 3 points and passes
\* the self-intersection test.
C6_SnapshotsAreValidBoundaries ==
    /\ \A i \in DOMAIN snapshots :
          /\ Len(PointsOf(snapshots[i])) >= 3
          /\ IsValidPolygon(PointsOf(snapshots[i]))
    /\ \A i \in DOMAIN snapshots :
          (pc \in {"select", "finish"} /\ IterationOf(snapshots[i]) = iteration) =>
              /\ PointsOf(snapshots[i]) = Points
              /\ heap[snapshots[i].geometry].points # current_points

\* the names the returned list must carry, in order
ExpectedNames ==
    <<SnapshotName(params.name, 0)>>
    \o [j \in 1..(params.iterations \div params.snapshot_interval) |->
           SnapshotName(params.name, j * params.snapshot_interval)]
    \o <<FinalName(params.name), params.name>>

\* C7: with save_iterations the call returns, in order, the iteration-0
\* snapshot, one snapshot for each multiple k of snapshot_interval in
\* 1..iterations (recording k), the final snapshot and the main polygon:
\* floor(iterations / snapshot_interval) + 3 entities, names pairwise distinct.
C7_ReturnedList ==
    (pc = "done" /\ params.save_iterations) =>
        /\ result.kind = "list"
        /\ Len(result.shapes) = (params.iterations \div params.snapshot_interval) + 3
        /\ [i \in 1..Len(result.shapes) |-> result.shapes[i].name] = ExpectedNames
        /\ \A i, j \in 1..Len(result.shapes) :
              i # j => result.shapes[i].name # result.shapes[j].name
        /\ \A i \in 1..(Len(result.shapes) - 2) :
              IterationOf(result.shapes[i]) = (i - 1) * params.snapshot_interval

\* a list returned with interval 2 after an abandoned iteration
C7_Witness ==
    /\ pc = "done"
    /\ params.save_iterations
    /\ params.snapshot_interval = 2
    /\ params.iterations = MaxIterations
    /\ Stats.successful_modifications < params.iterations

TotalWeightZero(operations) ==
    \A i \in 1..Len(operations) : WeightOf(operations[i]) = RZero

\* C8: a call whose operation list has total weight zero fails with a
\* parameter error before any mutation is attempted and never returns a
\* polygon, whatever the iteration count.
C8_ZeroWeightRejected ==
    (pc # "start" /\ TotalWeightZero(params.operations)) =>
        /\ pc \notin {"finish", "done"}
        /\ result.kind = "none"
        /\ pc = "error" => error.type = "ValueError"
        /\ stats # 0 => Stats.successful_modifications + Stats.failed_attempts = 0

\* the inbound contract of the driver on the resolved parameters
WellFormed(p) ==
    /\ p.bounds[1] < p.bounds[3] /\ p.bounds[2] < p.bounds[4]
    /\ p.iterations >= 0
    /\ p.max_retries >= 1
    /\ RLe(RZero, p.break_margin) /\ RLe(p.break_margin, Rat(1, 2))
    /\ RLe(RZero, p.break_width_max) /\ RLe(p.break_width_max, ROne)
    /\ RLt(RZero, p.projection_max)
    /\ p.verbose \in 0..3

\* C9: a call with a malformed parameter (bounds with x1 >= x2 or y1 >= y2,
\* iterations < 0, retry limit < 1, margin outside 0.0-0.5, break width
\* outside 0.0-1.0, projection multiplier <= 0, verbosity outside 0-3) is
\* rejected by call: the driver is never entered with such parameters.
C9_MalformedRejected ==
    params # <<>> => WellFormed(params)

\* the problems of a request: values that fail conversion, required
\* parameters neither supplied nor given by the preset, unknown names
Supplied(raw_params, name) ==
    \E key \in DOMAIN raw_params : UpperOf(key) = UpperOf(name)

SuppliedValue(raw_params, name) ==
    raw_params[CHOOSE key \in DOMAIN raw_params : UpperOf(key) = UpperOf(name)]

PresetOf(raw_params) ==
    IF "PRESET" \in DOMAIN raw_params
    THEN Presets[LowerOf(raw_params["PRESET"][1].text)] ELSE <<>>

ProblemLines(raw_params) ==
    { "Invalid value for " \o ParamOrder[i] :
        i \in { j \in 1..Len(ParamOrder) :
                  /\ Supplied(raw_params, ParamOrder[j])
                  /\ ~Convert(ParamSpecs[ParamOrder[j]],
                              SuppliedValue(raw_params, ParamOrder[j])).ok } }
    \cup { "Missing required parameter: " \o name :
             name \in { n \in {"vertices", "bounds"} :
                          /\ ~Supplied(raw_params, n)
                          /\ n \notin DOMAIN PresetOf(raw_params) } }
    \cup { "Unknown parameter: " \o key : key \in UnknownKeys(raw_params) }

\* the request names the method and, if any, a preset that exists
Resolvable ==
    /\ request.method_name \in Registry
    /\ "PRESET" \in DOMAIN request.raw_params =>
          LowerOf(request.raw_params["PRESET"][1].text) \in DOMAIN Presets

\* C10: when resolution finds several problems in one call, call raises a
\* single parameter error (ValueError) whose message lists every one of the
\* problems, and the driver is not started.
C10_AggregatedError ==
    (/\ pc # "call"
     /\ Resolvable
     /\ Cardinality(ProblemLines(request.raw_params)) >= 2) =>
        /\ pc = "error"
        /\ error.type = "ValueError"
        /\ { error.message[i] : i \in 1..Len(error.message) }
              = ProblemLines(request.raw_params)
        /\ params = <<>>
        /\ stats = 0

\* the value resolution must give a parameter: the explicit value, else the
\* preset's value, else the default of the parameter spec
ExpectedValue(raw_params, name) ==
    IF Supplied(raw_params, name)
    THEN Convert(ParamSpecs[name], SuppliedValue(raw_params, name)).val
    ELSE IF name \in DOMAIN PresetOf(raw_params) THEN PresetOf(raw_params)[name]
    ELSE ParamSpecs[name].default

\* C11: for each parameter call uses the explicit value, otherwise the
\* preset's value, otherwise the default; so every request without a problem
\* (in particular one that supplies only vertices and bounds) enters the
\* driver with every parameter resolved this way.
C11_ResolutionPrecedence ==
    (/\ pc # "call"
     /\ Resolvable
     /\ ProblemLines(request.raw_params) = {}) =>
        /\ params # <<>>
        /\ \A i \in 1..Len(ParamOrder) :
              params[ParamOrder[i]] = ExpectedValue(request.raw_params, ParamOrder[i])

\* how many entries of seq equal x
Count(seq, x) == Cardinality({ i \in 1..Len(seq) : seq[i] = x })

\* the positions at which two sequences of one length differ
Changed(old, new) == { i \in 1..Len(old) : old[i] # new[i] }

\* an attempt of operation op is accepted in this step
Accepts(op) == pc = "attempt" /\ success' /\ operation = op

\* C12: the distortable set stays in sync with the boundary: each of its
\* points is a point of the current boundary and it never outgrows the
\* initial vertex count; an accepted remove-point takes the removed point out
\* of it (one entry less for that point, none if it was not there); an
\* accepted distort-original replaces old by new at one position of the
\* boundary and at one position of the set; the other operations leave it alone.
C12_DistortableInSync ==
    /\ [](current_points # 0 =>
             \A k \in 1..Len(distortable_points) : Contains(Points, distortable_points[k]))
    /\ [][ /\ (pc = "start" /\ pc' # "error") =>
                 Len(distortable_points') <= Len(heap'[current_points'].items)
           /\ pc # "start" => Len(distortable_points') <= Len(distortable_points)
           /\ Accepts("remove_point") =>
                 LET removed == Points[segment_idx]
                 IN  /\ Count(distortable_points', removed)
                          = IF Contains(distortable_points, removed)
                            THEN Count(distortable_points, removed) - 1 ELSE 0
                     /\ Len(distortable_points') >= Len(distortable_points) - 1
                     /\ \A q \in { distortable_points[k] : k \in 1..Len(distortable_points) } :
                           q # removed => Count(distortable_points', q)
                                             = Count(distortable_points, q)
           /\ Accepts("distort_original") =>
                 /\ Len(heap'[current_points'].items) = Len(Points)
                 /\ Len(distortable_points') = Len(distortable_points)
                 /\ LET moved == Changed(Points, heap'[current_points'].items)
                        replaced == Changed(distortable_points, distortable_points')
                    IN  /\ Cardinality(moved) <= 1
                        /\ Cardinality(replaced) = Cardinality(moved)
                        /\ \A i \in moved : \A k \in replaced :
                              /\ Points[i] = distortable_points[k]
                              /\ heap'[current_points'].items[i] = distortable_points'[k]
           /\ (\E op \in {"split_offset", "sawtooth", "squarewave"} : Accepts(op)) =>
                 distortable_points' = distortable_points ]_vars

\* a call returned after an accepted remove-point and an accepted
\* distort-original
C12_Witness ==
    /\ pc = "done"
    /\ params.operations = SequenceOperations
    /\ OperationsUsed["remove_point"] >= 1
    /\ OperationsUsed["distort_original"] >= 1
    /\ distortable_points # <<>>

\* C13: remove-point refuses on a boundary of exactly 3 points (the attempt
\* fails and the boundary stays), so the boundary never has fewer than 3
\* points; an accepted remove-point deletes exactly the vertex at the selected
\* index and keeps the other points in order.
C13_RemovePoint ==
    /\ [](current_points # 0 => Len(Points) >= 3)
    /\ [][ /\ (pc = "attempt" /\ operation = "remove_point" /\ Len(Points) = 3) =>
                 /\ ~success'
                 /\ BoundaryUnchanged
                 /\ heap'[stats].failed_attempts = Stats.failed_attempts + 1
           /\ Accepts("remove_point") =>
                 heap'[current_points'].items
                    = [i \in 1..(Len(Points) - 1) |->
                         IF i < segment_idx THEN Points[i] ELSE Points[i + 1]] ]_vars

\* a remove-point attempt was refused on a triangle
C13_Witness ==
    /\ pc = "end_iter"
    /\ operation = "remove_point"
    /\ ~success
    /\ Len(Points) = 3
    /\ Stats.failed_attempts >= 1

\* the procedure dict of the main polygon, the last entity returned
MainProcedure == heap[result.shapes[Len(result.shapes)].procedure]

\* C14: with verbosity 2 or 3 the call completes and the returned polygon
\* carries a debug log with exactly one entry per iteration, numbered
\* 1..iterations in order, and a summary equal to the final statistics; with
\* verbosity 0 no debug log is attached.
C14_DebugLog ==
    /\ (params # <<>> /\ params.verbose \in 2..3) => pc # "error"
    /\ (pc = "done" /\ params.verbose \in 2..3) =>
          /\ "debug_log" \in DOMAIN MainProcedure
          /\ Len(MainProcedure.debug_log.iterations) = params.iterations
          /\ \A k \in 1..params.iterations :
                MainProcedure.debug_log.iterations[k].iteration = k
          /\ MainProcedure.debug_log.summary.successful_modifications
                = Stats.successful_modifications
          /\ MainProcedure.debug_log.summary.failed_attempts = Stats.failed_attempts
    /\ (pc = "done" /\ params.verbose = 0) => "debug_log" \notin DOMAIN MainProcedure

\* the parameters of the resolved set that the metadata block is to carry
ProvenanceKeys ==
    {"vertices", "bounds", "iterations", "connect", "operations", "break_margin",
     "break_width_max", "projection_max", "min_segment_length",
     "squarewave_independent_directions", "squarewave_opposite_direction_prob",
     "max_retries", "direction_bias", "verbose", "save_iterations", "snapshot_interval"}

\* C15: the final polygon's metadata block contains every parameter of the
\* resolved parameter set (retry limit and snapshot interval included), each
\* with its resolved value, together with the final statistics.
C15_FullProvenance ==
    pc = "done" =>
        /\ \A k \in ProvenanceKeys :
              /\ k \in DOMAIN MainProcedure.parameters
              /\ MainProcedure.parameters[k] = params[k]
        /\ heap[MainProcedure.statistics] = Stats

\* what does hold: the fourteen recorded parameters carry the resolved values
C15_RecordedProvenance ==
    pc = "done" =>
        /\ DOMAIN MainProcedure.parameters = ProvenanceKeys \ {"max_retries", "snapshot_interval"}
        /\ \A k \in DOMAIN MainProcedure.parameters : MainProcedure.parameters[k] = params[k]
        /\ heap[MainProcedure.statistics] = Stats

\* the net number of points the accepted operations have added, from the
\* per-operation success counters
NetInserted(counts) ==
    LET c(op) == IF op \in DOMAIN counts THEN counts[op] ELSE 0
    IN  c("split_offset") + 3 * c("sawtooth") + 4 * c("squarewave") - c("remove_point")

\* the boundary exists: construction has succeeded
Constructed == pc \in {"select", "attempt", "end_iter", "finish", "done"}

\* C17: the number of points equals the initial polygon's number of points
\* + 1 per accepted split_offset + 3 per accepted sawtooth + 4 per accepted
\* squarewave - 1 per accepted remove_point (distort_original adds none), by
\* the per-operation success counters; with only split_offset enabled the
\* final count is the initial count + successful_modifications, at most the
\* initial count + iterations.
C17_PointCount ==
    /\ [](/\ (Constructed /\ snapshots # <<>>) =>
                Len(Points) = Len(PointsOf(snapshots[1])) + NetInserted(OperationsUsed)
          /\ (pc = "done" /\ params.save_iterations) =>
                Len(PointsOf(result.shapes[Len(result.shapes)]))
                  = Len(PointsOf(result.shapes[1])) + NetInserted(OperationsUsed)
          /\ (pc = "done" /\ params.operations = SplitOnly) =>
                /\ NetInserted(OperationsUsed) = Stats.successful_modifications
                /\ Stats.successful_modifications <= params.iterations)
    /\ [][/\ (pc = "start" /\ pc' # "error") =>
                /\ NetInserted(OperationsUsed') = 0
                /\ \E n \in VertexCounts(params.vertices) : Len(Points') <= n
                /\ params.connect = "angle_sort"
                      => Len(Points') \in VertexCounts(params.vertices)
          /\ (Constructed /\ Constructed') =>
                Len(Points') - NetInserted(OperationsUsed')
                  = Len(Points) - NetInserted(OperationsUsed)]_vars

C17_Witness ==
    /\ pc = "done"
    /\ params.operations = SequenceOperations
    /\ OperationsUsed["split_offset"] = 1
    /\ OperationsUsed["remove_point"] = 1

\* the points stand in non-decreasing order of angle about their mean
AngleOrdered(points) ==
    LET n == Len(points)
        cx == RMul(RSum(points, 1), Rat(1, n))
        cy == RMul(RSum(points, 2), Rat(1, n))
        rel(i) == <<RSub(points[i][1], cx), RSub(points[i][2], cy)>>
    IN  \A i, j \in 1..n : i < j => ~AngleLt(rel(j), rel(i))

\* C18: with iterations = 0 the output polygon's point list is the rounded,
\* angle-sorted initial vertices (some vertices drawn within the bounds, in
\* angle order about their mean, then rounded), its length is the resolved
\* vertex count, no operation is attempted, and successful_modifications,
\* failed_attempts and every per-operation counter are zero.
C18_ZeroIterations ==
    params.iterations = 0 =>
        /\ pc \notin {"select", "attempt", "end_iter"}
        /\ pc = "done" =>
              LET points == PointsOf(result.shapes[Len(result.shapes)])
              IN  /\ Len(points) \in VertexCounts(params.vertices)
                  /\ \E raw \in [1..Len(points) -> RawPoints(params.bounds)] :
                        AngleOrdered(raw) /\ points = RoundAll(raw)
                  /\ attempt_count = 0
                  /\ Stats.successful_modifications = 0
                  /\ Stats.failed_attempts = 0
                  /\ \A op \in DOMAIN OperationsUsed : OperationsUsed[op] = 0
                  /\ heap[MainProcedure.statistics] = Stats

C18_Witness ==
    /\ pc = "done"
    /\ params.iterations = 0
    /\ params.vertices = Fixed(4)
    /\ Cardinality({ Points[i] : i \in 1..Len(Points) }) = 4

\* every edge of the boundary is shorter than the minimum segment length
AllShort(points, min_segment_length) ==
    /\ min_segment_length > 0
    /\ \A i \in 1..Len(points) : SqLen(points, i) < min_segment_length * min_segment_length

AllZero(points) == \A i \in 1..Len(points) : SqLen(points, i) = 0

Remaining ==
    CASE pc = "done" -> 0
      [] pc = "finish" -> 1
      [] pc = "select" ->
           2 + (params.iterations - iteration) * (params.max_retries + 3)
             + params.max_retries + 2
      [] pc = "attempt" ->
           2 + (params.iterations - iteration) * (params.max_retries + 3)
             + params.max_retries - attempt_count + 1
      [] pc = "end_iter" ->
           2 + (params.iterations - iteration) * (params.max_retries + 3)

\* C20: once the boundary is built and some operation has a positive weight,
\* no attempt's failure (operation raised or candidate rejected) reaches the
\* caller: the failing attempt adds exactly one to failed_attempts and nothing
\* else to the statistics, the call never ends in an error, every step brings
\* it closer to its return and a step is always possible (an edge can be
\* selected, an attempt has an outcome), so it returns a polygon however many
\* iterations exhaust their retries.
C20_NoEscalation ==
    /\ [](/\ (pc = "select" /\ EligibleOps(params.operations) # {}) =>
                SelectSegment(Points, params.min_segment_length) # {}
          /\ pc = "attempt" => RndSet(operation) # {}
          /\ pc = "done" =>
                /\ result.kind \in {"polygon", "list"}
                /\ result.shapes[Len(result.shapes)].name = params.name
                /\ error = NoError)
    /\ [][(Constructed /\ EligibleOps(params.operations) # {}) =>
            /\ pc' # "error"
            /\ error' = NoError
            /\ Remaining' < Remaining
            /\ (pc = "attempt" /\ ~success') =>
                  /\ Stats'.failed_attempts = Stats.failed_attempts + 1
                  /\ Stats'.successful_modifications = Stats.successful_modifications
                  /\ OperationsUsed' = OperationsUsed
            /\ (pc = "attempt" /\ success') =>
                  Stats'.failed_attempts = Stats.failed_attempts]_vars

C20_Witness ==
    /\ pc = "done"
    /\ params.iterations = MaxIterations
    /\ params.max_retries = MaxRetries
    /\ Stats.successful_modifications = 0
    /\ Stats.failed_attempts = MaxIterations * MaxRetries
    /\ Len(PointsOf(result.shapes[Len(result.shapes)])) >= 3

\* C21: within one iteration the edge and the operation are chosen once, the
\* attempts are made in order and stop at the first candidate that passes:
\* after an ACCEPT no further attempt is made in that iteration, and an
\* iteration that ends in ABANDON made exactly max_retries attempts, each of
\* them counted as failed.
C21_RetryLoop ==
    /\ [](/\ pc = "attempt" => (~success /\ attempt_count < params.max_retries)
          /\ (pc = "end_iter" /\ success) => attempt_count \in 1..params.max_retries
          /\ (pc = "end_iter" /\ ~success) => attempt_count = params.max_retries)
    /\ [][/\ pc = "attempt" =>
                /\ segment_idx' = segment_idx
                /\ operation' = operation
                /\ iteration' = iteration
                /\ attempt_count' = attempt_count + 1
                /\ success' => pc' = "end_iter"
                /\ ~success' => Stats'.failed_attempts = Stats.failed_attempts + 1
                /\ pc' = "attempt" => ~success'
          /\ pc = "end_iter" => pc' # "attempt"
          /\ (pc = "select" /\ pc' # "error") =>
                (attempt_count' = 0 /\ ~success' /\ iteration' = iteration)]_vars

C21_Witness ==
    /\ pc = "end_iter"
    /\ ~success
    /\ attempt_count = MaxRetries
    /\ params.max_retries = MaxRetries
    /\ iteration = 1

\* the call as it runs: one thread that executes its next statement as long
\* as it has one.  Weak fairness of Next, with its enabling condition written
\* out: a step is possible exactly when the call has neither returned nor
\* raised.
Terminated == pc \in {"done", "error"}

SpecLive == Init /\ [][Next]_vars /\ ([]<>Terminated \/ []<><<Next>>_vars)

\* C22: every call of dynamic_polygon terminates (returns or raises), having
\* made at most iterations * max_retries operation attempts.
C22_Terminates ==
    /\ <>(pc \in {"done", "error"})
    /\ [](pc = "attempt" =>
            iteration * params.max_retries + attempt_count
              < params.iterations * params.max_retries)
    /\ [](pc = "done" =>
            Stats.successful_modifications + Stats.failed_attempts
              <= params.iterations * params.max_retries)

\* a call returned after the largest number of attempts its limits allow,
\* with an accepted candidate among them
C22_Witness ==
    /\ pc = "done"
    /\ params.iterations = MaxIterations
    /\ params.max_retries = MaxRetries
    /\ Stats.successful_modifications >= 1
    /\ Stats.successful_modifications + Stats.failed_attempts = MaxIterations * MaxRetries

\* the boundary positions that hold a vertex of the initial construction with
\* coordinates q
OriginalsAt(q) == { i \in 1..Len(Points) : original[i] /\ Points[i] = q }

\* every member of the distortable set is matched by an original vertex
C23_MembersAreOriginals ==
    Constructed =>
        \A k \in 1..Len(distortable_points) :
            Count(distortable_points, distortable_points[k])
              <= Cardinality(OriginalsAt(distortable_points[k]))

\* an accepted distort-original moves no inserted point
C23_MovesOriginal ==
    [][Accepts("distort_original") =>
         \A i \in Changed(Points, heap'[current_points'].items) : original[i]]_vars

\* an accepted remove-point shrinks the set only if it removed an original
C23_DropsOriginal ==
    [][(Accepts("remove_point") /\ Len(distortable_points') < Len(distortable_points))
          => original[segment_idx]]_vars

\* C23: distort-original only ever moves a vertex of the initial
\* construction: after any sequence of accepted operations every member of
\* the distortable set corresponds to an original vertex (possibly moved by
\* earlier distort-original steps), never to an inserted point, and
\* remove-point drops a member only when the removed boundary vertex is that
\* original vertex itself.
C23_DistortOnlyOriginals ==
    /\ []C23_MembersAreOriginals
    /\ C23_MovesOriginal
    /\ C23_DropsOriginal

\* the number of points an insertion adds
InsertedBy(op) ==
    CASE op = "split_offset" -> 1 [] op = "sawtooth" -> 3 [] op = "squarewave" -> 4

InsertOperations == {"split_offset", "sawtooth", "squarewave"}

\* new is old with k points put in after position idx, nothing else touched
InsertedAfter(old, new, idx, k) ==
    /\ Len(new) = Len(old) + k
    /\ SubSeq(new, 1, idx) = SubSeq(old, 1, idx)
    /\ SubSeq(new, idx + k + 1, Len(new)) = SubSeq(old, idx + 1, Len(old))

\* C24: split-offset, sawtooth and squarewave each return a new boundary in
\* which exactly 1, 3 or 4 new points are inserted between the two endpoints
\* of the selected edge (after the last vertex for the closing edge), all
\* pre-existing points keep their order, and neither the input boundary nor
\* the input distortable set is modified: every candidate has that shape,
\* an accepted one becomes the boundary, a rejected one leaves both as they were.
C24_Insertions ==
    /\ []((pc = "attempt" /\ operation \in InsertOperations) =>
            \A r \in Candidates :
                r.ok => /\ InsertedAfter(Points, r.points, segment_idx, InsertedBy(operation))
                        /\ r.distortable = distortable_points)
    /\ [][(pc = "attempt" /\ operation \in InsertOperations) =>
            /\ success' =>
                  /\ InsertedAfter(Points, heap'[current_points'].items, segment_idx,
                                   InsertedBy(operation))
                  /\ distortable_points' = distortable_points
            /\ ~success' =>
                  /\ heap'[current_points'].items = Points
                  /\ distortable_points' = distortable_points]_vars

\* a squarewave accepted on the closing edge of the boundary
C24_Witness ==
    /\ pc = "end_iter"
    /\ success
    /\ operation = "squarewave"
    /\ segment_idx = Len(Points) - 4

\* edges i and j of a boundary of n points have no vertex position in common
SharesNoVertex(i, j, n) == i # j /\ NextIdx(i, n) # j /\ NextIdx(j, n) # i

\* the segment test on edges i and j of points, as the validator calls it
EdgesIntersect(points, i, j) ==
    SegmentsIntersect(points[i], points[NextIdx(i, Len(points))],
                      points[j], points[NextIdx(j, Len(points))])

\* C25: _is_valid_polygon returns false exactly when the boundary has fewer
\* than 3 points or some pair of edges sharing no vertex is reported
\* intersecting by the segment test; every such pair counts, the pairs with
\* the closing edge included, and a pair of edges that share a vertex (the
\* first and the closing edge among them) never does.
C25_ValidPolygon ==
    pc = "validated" =>
        (~success <=>
            \/ Len(Points) < 3
            \/ \E i, j \in 1..Len(Points) :
                  i < j /\ SharesNoVertex(i, j, Len(Points)) /\ EdgesIntersect(Points, i, j))

\* a boundary of five points rejected only for a crossing with its closing
\* edge, whose first and closing edge would be reported as well
C25_Witness ==
    /\ pc = "validated"
    /\ ~success
    /\ Len(Points) = 5
    /\ \E i \in 2..3 : EdgesIntersect(Points, i, 5)
    /\ \A i, j \in 1..4 : (i < j /\ SharesNoVertex(i, j, 5)) => ~EdgesIntersect(Points, i, j)

\* twice the signed area of the triangle A, B, C
Orient(A, B, C) == (B[1] - A[1]) * (C[2] - A[2]) - (B[2] - A[2]) * (C[1] - A[1])

Between(a, b, c) == (a <= b /\ b <= c) \/ (c <= b /\ b <= a)

\* p lies on the closed segment a-b
OnSegment(p, a, b) ==
    /\ Orient(a, b, p) = 0
    /\ Between(a[1], p[1], b[1])
    /\ Between(a[2], p[2], b[2])

\* each segment's endpoints lie strictly on opposite sides of the other
ProperlyCross(p1, p2, p3, p4) ==
    /\ Orient(p1, p2, p3) * Orient(p1, p2, p4) < 0
    /\ Orient(p3, p4, p1) * Orient(p3, p4, p2) < 0

\* the segments meet, but only where an endpoint of one lies on the other
TouchOnly(p1, p2, p3, p4) ==
    /\ ~ProperlyCross(p1, p2, p3, p4)
    /\ \/ OnSegment(p1, p3, p4) \/ OnSegment(p2, p3, p4)
       \/ OnSegment(p3, p1, p2) \/ OnSegment(p4, p1, p2)

\* C26: _segments_intersect(p1, p2, p3, p4) on integer points returns true
\* whenever the two segments properly cross and returns false whenever they
\* only touch at an endpoint of one of them.
C26_SegmentsIntersect ==
    pc = "intersected" =>
        /\ ProperlyCross(Points[1], Points[2], Points[3], Points[4]) => success
        /\ TouchOnly(Points[1], Points[2], Points[3], Points[4]) => ~success

\* what holds: proper crossings are reported, and so is nothing that does
\* not at least touch
C26_ProperCrossingsReported ==
    pc = "intersected" =>
        /\ ProperlyCross(Points[1], Points[2], Points[3], Points[4]) => success
        /\ success => \/ ProperlyCross(Points[1], Points[2], Points[3], Points[4])
                      \/ TouchOnly(Points[1], Points[2], Points[3], Points[4])

\* edge i is at least m long (m is a whole number of pixels)
LongEnough(points, i, m) == m <= 0 \/ SqLen(points, i) >= m * m

SnapshotStatistics(h, polygon) ==
    LET st == h[h[polygon.procedure].stats]
    IN  [successful_modifications |-> st.successful_modifications,
         failed_attempts |-> st.failed_attempts,
         operations_used |-> h[st.operations_used].counts]

\* the statistics of the call as they stand in heap h
LiveStatistics(h, st) ==
    [successful_modifications |-> h[st].successful_modifications,
     failed_attempts |-> h[st].failed_attempts,
     operations_used |-> h[h[st].operations_used].counts]

\* a snapshot is taken with the statistics of its moment
C28_TakenWithCurrentStatistics ==
    [][Len(snapshots') = Len(snapshots) + 1 =>
         SnapshotStatistics(heap', snapshots'[Len(snapshots')]) = LiveStatistics(heap', stats')]_vars

\* C28: the statistics stored in an iteration snapshot
\* (successful_modifications, failed_attempts and the per-operation counts)
\* are the values as of the iteration at which it was taken, and later
\* iterations of the call do not change them.
C28_SnapshotStatisticsFrozen ==
    /\ C28_TakenWithCurrentStatistics
    /\ [][\A i \in DOMAIN snapshots :
            SnapshotStatistics(heap', snapshots[i]) = SnapshotStatistics(heap, snapshots[i])]_vars

\* what holds: the two scalar counters of a snapshot never change
C28_ScalarCountersFrozen ==
    [][\A i \in DOMAIN snapshots :
         /\ SnapshotStatistics(heap', snapshots[i]).successful_modifications
              = SnapshotStatistics(heap, snapshots[i]).successful_modifications
         /\ SnapshotStatistics(heap', snapshots[i]).failed_attempts
              = SnapshotStatistics(heap, snapshots[i]).failed_attempts]_vars

\* the operations value of the request names an operation outside the choices
UnknownOperationRequested ==
    /\ request # NoRequest
    /\ "OPERATIONS" \in DOMAIN request.raw_params
    /\ \E i \in 1..Len(request.raw_params["OPERATIONS"]) :
          request.raw_params["OPERATIONS"][i].text \notin OperationChoices

\* the operation of an iteration is one of the five choices
C29_NeverSelected ==
    pc \in {"attempt", "end_iter"} => operation \in OperationChoices

\* C29: an operation name outside {split_offset, sawtooth, squarewave,
\* remove_point, distort_original} in the operations parameter is rejected
\* by call as a parameter error before the driver starts (the call stays in
\* call or ends in the error, with no keyword arguments handed over), and
\* is never selected as the operation of an iteration.
C29_UnknownOperationRejected ==
    /\ UnknownOperationRequested => pc \in {"call", "error"} /\ params = <<>>
    /\ C29_NeverSelected

\* the same cyclic boundary listed from its k-th next vertex, and listed in
\* the opposite direction
Rotated(points, k) ==
    [i \in 1..Len(points) |-> points[((i - 1 + k) % Len(points)) + 1]]
Reversed(points) ==
    [i \in 1..Len(points) |-> points[Len(points) + 1 - i]]

\* the verdict is the same from every start vertex
C30_RotationInvariant ==
    pc = "validated" =>
        \A k \in 1..(Len(Points) - 1) : IsValidPolygon(Rotated(Points, k)) = success

\* the verdict is the same in the opposite direction
C30_ReversalInvariant ==
    pc = "validated" => IsValidPolygon(Reversed(Points)) = success

\* C30: the verdict of _is_valid_polygon does not depend on how the same
\* cyclic boundary is listed: for every integer point list, rotating the
\* start vertex or reversing the traversal direction yields the same verdict.
C30_ListingInvariant ==
    C30_RotationInvariant /\ C30_ReversalInvariant
====
